---------------------------- MODULE Spec2Model ----------------------------
(***************************************************************************)
(* The deposit / withdraw vault programs of Solana-CPI-Explained: the      *)
(* native program, the Pinocchio program and the Anchor program, each run  *)
(* against a ledger of accounts (lamports, owner, data) through the system *)
(* program's create_account and transfer.                                  *)
(*                                                                         *)
(* A Pubkey is a natural number; its 32 bytes are its base-256 digits.     *)
(* A seed is a natural number standing for one byte string (a key's bytes, *)
(* the label b"vault", a one-byte bump).  Lamports are counted in units.   *)
(***************************************************************************)
EXTENDS Integers, Sequences, FiniteSets, TLC

VARIABLES
    variant,    \* which of the three programs is deployed on this ledger
    accounts,   \* the ledger: Pubkey -> [lamports, owner, data]
    last,       \* the step that led here: the request and its outcome
    probe       \* a function of the client or the program applied on its own:
                \* its name, its input and its result

vars == <<variant, accounts, last, probe>>

(***************************************************************************)
(* Bounds of the model.                                                    *)
(***************************************************************************)
\* find_program_address searches the bumps 255, 254, ... ; the model stops
\* after NumBumps of them (every seed list of the model has a valid bump
\* among the first two).
NumBumps == 3
\* Amounts of a request and of a wallet transfer: 0 .. MaxAmount.
MaxAmount == 3
\* Lamports each wallet starts with.
InitLamports == 3
\* Rent::minimum_balance(UserAccount::SIZE), in units.
RentExemptMinimum == 1
\* Lamports the donor wallet starts with: what makes one account rent-exempt.
DonorLamports == RentExemptMinimum

(***************************************************************************)
(* Identities.                                                             *)
(***************************************************************************)
SYSTEM_PROGRAM_ID == 0
NATIVE_PROGRAM_ID == 91
PINOCCHIO_PROGRAM_ID == 92
ANCHOR_PROGRAM_ID == 93
\* A program that is none of the above: the owner of a forged account.
FOREIGN_PROGRAM_ID == 94
\* The wallets (keypair addresses) that sign requests.
UserA == 1
UserB == 2
Users == {UserA, UserB}
\* The address of an account that a foreign program owns and fills with any
\* bytes.
ForgedKey == 7
\* A wallet that sends requests to none of the programs.
Donor == 3

Variants == {"native", "pinocchio", "anchor"}

ProgramIdOf(v) ==
    CASE v = "native" -> NATIVE_PROGRAM_ID
      [] v = "pinocchio" -> PINOCCHIO_PROGRAM_ID
      [] OTHER -> ANCHOR_PROGRAM_ID

\* b"vault", as a seed.
VAULT_SEED == 5

PUBKEY_BYTES == 32
\* UserAccount::SIZE = 32 + 1 + 1 + 1
UserAccountSIZE == PUBKEY_BYTES + 1 + 1 + 1

BumpMax == 255
Bumps == (BumpMax + 1 - NumBumps) .. BumpMax
Amounts == 0 .. MaxAmount

(***************************************************************************)
(* Address derivation.                                                     *)
(***************************************************************************)
RECURSIVE HashFold(_, _)
HashFold(s, h) ==
    IF s = <<>> THEN h
    ELSE HashFold(Tail(s), (h * 37 + Head(s) + 1) % 65521)

\* The hash of the seeds and the program id: collision-free on the seeds of
\* the model, and above every keypair address and program id.
HashSeeds(seeds, program_id) ==
    256 + (HashFold(seeds \o <<program_id>>, 7) % 65000)

\* Whether a hash is a point of the curve, hence a possible public key.
IsOnCurve(h) == h % 3 = 0

\* Pubkey::create_program_address: the address of exactly these seeds (the
\* bump included as the last seed), or the error InvalidSeeds.
create_program_address(seeds, program_id) ==
    LET h == HashSeeds(seeds, program_id)
    IN  IF IsOnCurve(h)
        THEN [ok |-> FALSE, key |-> 0]
        ELSE [ok |-> TRUE, key |-> h]

\* Pubkey::find_program_address: the search from bump 255 downwards for the
\* first bump whose address is off the curve.
RECURSIVE FindFrom(_, _, _)
FindFrom(seeds, program_id, bump) ==
    LET r == create_program_address(seeds \o <<bump>>, program_id)
    IN  IF r.ok THEN [ok |-> TRUE, key |-> r.key, bump |-> bump]
        ELSE IF bump - 1 \in Bumps THEN FindFrom(seeds, program_id, bump - 1)
        ELSE [ok |-> FALSE, key |-> 0, bump |-> 0]

find_program_address(seeds, program_id) == FindFrom(seeds, program_id, BumpMax)

\* The address searched for again, whatever bump is stored.
verify_address_by_search(seeds, bump, program_id, claimed) ==
    IF ~find_program_address(seeds, program_id).ok THEN "InvalidSeeds"
    ELSE IF claimed # find_program_address(seeds, program_id).key
    THEN "InvalidAccountData"
    ELSE "Ok"

\* process_withdraw, lines 197-210: the address recomputed from the seeds
\* and the stored bump with create_program_address, its error returned, and
\* the supplied key compared with it.
verify_address(seeds, bump, program_id, claimed) ==
    IF ~create_program_address(seeds \o <<bump>>, program_id).ok THEN "InvalidSeeds"
    ELSE IF claimed # create_program_address(seeds \o <<bump>>, program_id).key
    THEN "InvalidAccountData"
    ELSE "Ok"

\* The client's helpers.
find_user_account_address(user_pubkey, program_id) ==
    find_program_address(<<user_pubkey>>, program_id)

\* The vault derived without the label b"vault".
find_vault_address_unlabelled(user_pubkey, program_id) ==
    find_program_address(<<user_pubkey>>, program_id)

find_vault_address(user_pubkey, program_id) ==
    find_program_address(<<VAULT_SEED, user_pubkey>>, program_id)

(***************************************************************************)
(* The metadata record and its Borsh layout.                               *)
(***************************************************************************)
\* Pubkey::as_ref / to_bytes: the 32 bytes of a key, low byte first.
RECURSIVE DigitsLE(_, _)
DigitsLE(k, n) ==
    IF n = 0 THEN <<>> ELSE <<k % 256>> \o DigitsLE(k \div 256, n - 1)

PubkeyBytes(k) == DigitsLE(k, PUBKEY_BYTES)

\* The key whose bytes these are.
RECURSIVE PubkeyFromBytes(_)
PubkeyFromBytes(b) ==
    IF b = <<>> THEN 0 ELSE Head(b) + 256 * PubkeyFromBytes(Tail(b))

\* struct UserAccount { user, user_bump, vault_bump, is_initialized }
UserAccount(user, user_bump, vault_bump, is_initialized) ==
    [user |-> user, user_bump |-> user_bump, vault_bump |-> vault_bump,
     is_initialized |-> is_initialized]

\* BorshSerialize for UserAccount: the fields in declaration order.
UserAccountSerialize(r) ==
    PubkeyBytes(r.user)
        \o <<r.user_bump, r.vault_bump, IF r.is_initialized THEN 1 ELSE 0>>

\* BorshDeserialize::deserialize for UserAccount: reads a prefix of the
\* buffer; fails on a short buffer and on a bool byte other than 0 or 1.
UserAccountDeserialize(data) ==
    IF Len(data) < UserAccountSIZE \/ data[PUBKEY_BYTES + 3] \notin {0, 1}
    THEN [ok |-> FALSE, rec |-> UserAccount(0, 0, 0, FALSE)]
    ELSE [ok |-> TRUE,
          rec |-> UserAccount(PubkeyFromBytes(SubSeq(data, 1, PUBKEY_BYTES)),
                              data[PUBKEY_BYTES + 1], data[PUBKEY_BYTES + 2],
                              data[PUBKEY_BYTES + 3] = 1)]

\* The record read from the front of the buffer, bytes left over or not.
UserAccountTryFromSlicePrefix(data) == UserAccountDeserialize(data)

\* BorshDeserialize::try_from_slice: deserialize, and fail as well when
\* bytes are left over.
UserAccountTryFromSlice(data) ==
    IF Len(data) # UserAccountSIZE
    THEN [ok |-> FALSE, rec |-> UserAccount(0, 0, 0, FALSE)]
    ELSE UserAccountDeserialize(data)

\* Writing a serialized value into an account's buffer (io::Write for
\* &mut [u8]): fails when the buffer is too short, keeps the bytes behind.
WriteInto(data, bytes) ==
    IF Len(data) < Len(bytes)
    THEN [ok |-> FALSE, data |-> data]
    ELSE [ok |-> TRUE,
          data |-> bytes \o SubSeq(data, Len(bytes) + 1, Len(data))]

Zeroes(n) == [i \in 1 .. n |-> 0]

(***************************************************************************)
(* The ledger and the system program.                                      *)
(***************************************************************************)
\* The seed lists the programs derive from.
SeedLists == {<<u>> : u \in Users} \cup {<<VAULT_SEED, u>> : u \in Users}

\* Every derived address of program_id within the bumps of the model.
PdaKeys(program_id) ==
    {create_program_address(p[1] \o <<p[2]>>, program_id).key :
        p \in {q \in SeedLists \X Bumps :
                    create_program_address(q[1] \o <<q[2]>>, program_id).ok}}

AccountKeys(v) == Users \cup {Donor, ForgedKey} \cup PdaKeys(ProgramIdOf(v))

\* An address nothing was ever sent to: no lamports, no data, owned by the
\* system program.
EmptyAccount == [lamports |-> 0, owner |-> SYSTEM_PROGRAM_ID, data |-> <<>>]

\* The outcome of a call: "Ok" or the error, the last message logged before
\* an error, the checks passed and calls issued so far, and the ledger.
Done(events, L) == [err |-> "Ok", msg |-> "", events |-> events, accts |-> L]
Fail(err, msg, events, L) ==
    [err |-> err, msg |-> msg, events |-> events, accts |-> L]

\* A transfer that credits the receiver and debits nobody.
SystemTransferMinting(L, from, to, lamports) ==
    IF L[from].data # <<>> THEN [err |-> "InvalidArgument", accts |-> L]
    ELSE IF lamports > L[from].lamports
    THEN [err |-> "ResultWithNegativeLamports", accts |-> L]
    ELSE IF L[from].owner # SYSTEM_PROGRAM_ID
    THEN [err |-> "ExternalAccountLamportSpend", accts |-> L]
    ELSE [err |-> "Ok", accts |-> [L EXCEPT ![to].lamports = @ + lamports]]

\* The system program's transfer of lamports.
SystemTransfer(L, from, to, lamports) ==
    IF L[from].data # <<>> THEN [err |-> "InvalidArgument", accts |-> L]
    ELSE IF lamports > L[from].lamports
    THEN [err |-> "ResultWithNegativeLamports", accts |-> L]
    ELSE IF L[from].owner # SYSTEM_PROGRAM_ID
    THEN [err |-> "ExternalAccountLamportSpend", accts |-> L]
    ELSE LET L1 == [L EXCEPT ![from].lamports = @ - lamports]
         IN  [err |-> "Ok", accts |-> [L1 EXCEPT ![to].lamports = @ + lamports]]

\* The system program's create_account: the new account must be unused.
SystemCreateAccount(L, from, to, lamports, space, owner) ==
    IF L[to].lamports > 0 THEN [err |-> "AccountAlreadyInUse", accts |-> L]
    ELSE IF L[to].data # <<>> \/ L[to].owner # SYSTEM_PROGRAM_ID
    THEN [err |-> "AccountAlreadyInUse", accts |-> L]
    ELSE LET L1 == [L EXCEPT ![to].data = Zeroes(space), ![to].owner = owner]
         IN  SystemTransfer(L1, from, to, lamports)

\* The system program's allocate and assign of an account that signed.
SystemAllocateAssign(L, to, space, owner) ==
    IF L[to].data # <<>> \/ L[to].owner # SYSTEM_PROGRAM_ID
    THEN [err |-> "AccountAlreadyInUse", accts |-> L]
    ELSE [err |-> "Ok",
          accts |-> [L EXCEPT ![to].data = Zeroes(space), ![to].owner = owner]]

\* The accounts an instruction of the system program needs as signers.
RequiredSigners(ix) ==
    CASE ix.kind = "create_account" -> {ix.from, ix.to}
      [] ix.kind = "transfer" -> {ix.from}
      [] OTHER -> {ix.to}

SystemProcess(L, ix) ==
    CASE ix.kind = "create_account" ->
            SystemCreateAccount(L, ix.from, ix.to, ix.lamports, ix.space, ix.owner)
      [] ix.kind = "transfer" -> SystemTransfer(L, ix.from, ix.to, ix.lamports)
      [] OTHER -> SystemAllocateAssign(L, ix.to, ix.space, ix.owner)

\* invoke_signed: the runtime derives one signer from each seed list under
\* the calling program, refuses an instruction that needs a signer which
\* neither signed the transaction nor is derived, and runs the instruction.
invoke_signed(L, program_id, ix, tx_signers, signers_seeds) ==
    LET derived == {create_program_address(s, program_id) : s \in signers_seeds}
    IN  IF \E d \in derived : ~d.ok THEN [err |-> "InvalidSeeds", accts |-> L]
        ELSE IF ~(RequiredSigners(ix) \subseteq
                    (tx_signers \cup {d.key : d \in derived}))
        THEN [err |-> "PrivilegeEscalation", accts |-> L]
        ELSE SystemProcess(L, ix)

\* invoke: a call with no derived signer.
invoke(L, program_id, ix, tx_signers) ==
    invoke_signed(L, program_id, ix, tx_signers, {})

\* A creation that funds the new account with nothing.
CreateAccountIxUnfunded(from, to, lamports, space, owner) ==
    [kind |-> "create_account", from |-> from, to |-> to,
     lamports |-> 0, space |-> space, owner |-> owner]

\* system_instruction::create_account
CreateAccountIx(from, to, lamports, space, owner) ==
    [kind |-> "create_account", from |-> from, to |-> to,
     lamports |-> lamports, space |-> space, owner |-> owner]

TransferIx(from, to, lamports) ==
    [kind |-> "transfer", from |-> from, to |-> to,
     lamports |-> lamports, space |-> 0, owner |-> SYSTEM_PROGRAM_ID]

\* The keys of the request's accounts that signed the transaction.
TxSigners(accs) == {accs[i].key : i \in {j \in 1 .. Len(accs) : accs[j].is_signer}}

(***************************************************************************)
(* The instruction payload.                                                *)
(***************************************************************************)
\* The value of little-endian bytes.
RECURSIVE FromLE(_)
FromLE(b) == IF b = <<>> THEN 0 ELSE Head(b) + 256 * FromLE(Tail(b))

\* The variants declared in the other order.
ProgramInstructionSerializeSwapped(op, amount) ==
    <<IF op = "Deposit" THEN 1 ELSE 0>> \o DigitsLE(amount, 8)

\* The client's ProgramInstruction::serialize: the variant's index, then the
\* amount as eight little-endian bytes.
ProgramInstructionSerialize(op, amount) ==
    <<IF op = "Deposit" THEN 0 ELSE 1>> \o DigitsLE(amount, 8)

\* The payload decoded without the check for bytes left over.
ProgramInstructionUnpackPrefix(input) ==
    IF Len(input) = 0 \/ input[1] \notin {0, 1} \/ Len(input) < 9
    THEN [ok |-> FALSE, op |-> "Invalid", amount |-> 0]
    ELSE [ok |-> TRUE,
          op |-> IF input[1] = 0 THEN "Deposit" ELSE "Withdraw",
          amount |-> FromLE(SubSeq(input, 2, 9))]

\* The program's ProgramInstruction::unpack (try_from_slice).
ProgramInstructionUnpack(input) ==
    IF Len(input) = 0 \/ input[1] \notin {0, 1} \/ Len(input) # 9
    THEN [ok |-> FALSE, op |-> "Invalid", amount |-> 0]
    ELSE [ok |-> TRUE,
          op |-> IF input[1] = 0 THEN "Deposit" ELSE "Withdraw",
          amount |-> FromLE(SubSeq(input, 2, 9))]

(***************************************************************************)
(* The checks the three programs share.                                    *)
(***************************************************************************)
\* The signer check left out.
is_signer_unchecked(info) == TRUE

\* user_account_info.is_signer / Signer<'info>
is_signer(info) == info.is_signer

\* system_program_account_info.key == &system_program::id()
is_system_program(info) == info.key = SYSTEM_PROGRAM_ID

\* user_data_account_info.owner == program_id: the record exists already.
owned_by_program(acct, program_id) == acct.owner = program_id

\* A list of four accounts or more, the first four taken.
FourAccountsOrMore(accs) == Len(accs) >= 4

\* let [user, user_data, vault, system_program] = accounts else { ... }: the
\* slice pattern matches a list of exactly four accounts.
FourAccounts(accs) == Len(accs) = 4

\* user_data.user == *user_account_info.key
belongs_to(user_data, info) == user_data.user = info.key

\* The two bumps stored in each other's field.
NewUserAccountSwapped(user, user_bump, vault_bump) ==
    UserAccount(user, vault_bump, user_bump, TRUE)

\* The record a first Deposit writes.
NewUserAccount(user, user_bump, vault_bump) ==
    UserAccount(user, user_bump, vault_bump, TRUE)

\* The `?` after a call: its error returned, or the program goes on.
Outcome(t, msg, ev) ==
    IF t.err # "Ok" THEN Fail(t.err, msg, ev, t.accts) ELSE Done(ev, t.accts)

(***************************************************************************)
(* The native program.                                                     *)
(***************************************************************************)
\* process_deposit, lines 100-133: create and initialize the user data
\* account unless the program owns it already.
NativeDepositInit(program_id, L, accs, user_data_bump, vault_bump, ev) ==
    LET user == accs[1].key
        user_data == accs[2].key
        ev1 == ev \o <<"cpi_create_account">>
        AfterWrite(L1, w) ==
            IF ~w.ok THEN Fail("BorshIoError", "", ev1, L1)
            ELSE Done(ev1 \o <<"write_user_data">>,
                      [L1 EXCEPT ![user_data].data = w.data])
        AfterCreate(c) ==
            IF c.err # "Ok"
            THEN Fail(c.err, "Creating user data account", ev1, c.accts)
            ELSE AfterWrite(c.accts,
                    WriteInto(c.accts[user_data].data,
                        UserAccountSerialize(
                            NewUserAccount(user, user_data_bump, vault_bump))))
    IN  IF owned_by_program(L[user_data], program_id) THEN Done(ev, L)
        ELSE AfterCreate(
                invoke_signed(L, program_id,
                    CreateAccountIx(user, user_data, RentExemptMinimum,
                                    UserAccountSIZE, program_id),
                    TxSigners(accs), {<<user, user_data_bump>>}))

\* The transfer sent to the user data account instead of the vault.
NativeDepositTransferToRecord(program_id, L, accs, amount, ev) ==
    Outcome(invoke(L, program_id,
                   TransferIx(accs[1].key, accs[2].key, amount), TxSigners(accs)),
            "", ev \o <<"cpi_transfer">>)

\* process_deposit, lines 135-147: the transfer to the vault.
NativeDepositTransfer(program_id, L, accs, amount, ev) ==
    Outcome(invoke(L, program_id,
                   TransferIx(accs[1].key, accs[3].key, amount), TxSigners(accs)),
            "", ev \o <<"cpi_transfer">>)

native_process_deposit(program_id, L, accs, amount) ==
    IF ~FourAccounts(accs) THEN Fail("NotEnoughAccountKeys", "", <<>>, L)
    ELSE IF ~is_signer(accs[1])
    THEN Fail("MissingRequiredSignature", "User must sign the transaction",
              <<"accounts">>, L)
    ELSE IF ~is_system_program(accs[4])
    THEN Fail("InvalidAccountData", "Invalid system program",
              <<"accounts", "signer">>, L)
    ELSE
    LET AfterInit(i) ==
            IF i.err # "Ok" THEN i
            ELSE NativeDepositTransfer(program_id, i.accts, accs, amount, i.events)
        Checked(expected_user_data, expected_vault) ==
            IF accs[2].key # expected_user_data.key
            THEN Fail("InvalidAccountData", "Invalid user data account address",
                      <<"accounts", "signer", "system_program">>, L)
            ELSE IF accs[3].key # expected_vault.key
            THEN Fail("InvalidAccountData", "Invalid vault account address",
                      <<"accounts", "signer", "system_program", "user_data_address">>, L)
            ELSE AfterInit(
                    NativeDepositInit(program_id, L, accs,
                        expected_user_data.bump, expected_vault.bump,
                        <<"accounts", "signer", "system_program",
                          "user_data_address", "vault_address">>))
    IN  Checked(find_program_address(<<accs[1].key>>, program_id),
                find_program_address(<<VAULT_SEED, accs[1].key>>, program_id))

\* The amount clamped to what the vault holds.
NativeWithdrawTransferClamped(program_id, L, accs, amount, vault_bump, ev) ==
    Outcome(invoke_signed(L, program_id,
                TransferIx(accs[3].key, accs[1].key,
                           IF amount > L[accs[3].key].lamports
                           THEN L[accs[3].key].lamports ELSE amount),
                TxSigners(accs), {<<VAULT_SEED, accs[1].key, vault_bump>>}),
            "", ev \o <<"cpi_transfer">>)

\* The transfer out of the vault, and the record emptied after it.
NativeWithdrawTransferClosing(program_id, L, accs, amount, vault_bump, ev) ==
    LET Closed(out) ==
            IF out.err # "Ok" THEN out
            ELSE Done(out.events,
                      [out.accts EXCEPT ![accs[2].key].data =
                            Zeroes(Len(out.accts[accs[2].key].data))])
    IN  Closed(Outcome(invoke_signed(L, program_id,
                    TransferIx(accs[3].key, accs[1].key, amount), TxSigners(accs),
                    {<<VAULT_SEED, accs[1].key, vault_bump>>}),
                "", ev \o <<"cpi_transfer">>))

\* process_withdraw, lines 212-239: the transfer out of the vault, signed
\* with the vault's seeds and the stored bump.
NativeWithdrawTransfer(program_id, L, accs, amount, vault_bump, ev) ==
    Outcome(invoke_signed(L, program_id,
                TransferIx(accs[3].key, accs[1].key, amount), TxSigners(accs),
                {<<VAULT_SEED, accs[1].key, vault_bump>>}),
            "", ev \o <<"cpi_transfer">>)

native_process_withdraw(program_id, L, accs, amount) ==
    IF ~FourAccounts(accs) THEN Fail("NotEnoughAccountKeys", "", <<>>, L)
    ELSE IF ~is_signer(accs[1])
    THEN Fail("MissingRequiredSignature", "User must sign the transaction",
              <<"accounts">>, L)
    ELSE IF ~is_system_program(accs[4])
    THEN Fail("InvalidAccountData", "Invalid system program",
              <<"accounts", "signer">>, L)
    ELSE
    LET ev == <<"accounts", "signer", "system_program", "decode", "owner">>
        VaultChecked(user_data, expected_vault) ==
            IF ~expected_vault.ok
            THEN Fail("InvalidSeeds", "", ev \o <<"user_data_address">>, L)
            ELSE IF accs[3].key # expected_vault.key
            THEN Fail("InvalidAccountData", "Invalid vault account address",
                      ev \o <<"user_data_address">>, L)
            ELSE NativeWithdrawTransfer(program_id, L, accs, amount,
                    user_data.vault_bump,
                    ev \o <<"user_data_address", "vault_address">>)
        AddressChecked(user_data, expected_user_data) ==
            IF ~expected_user_data.ok THEN Fail("InvalidSeeds", "", ev, L)
            ELSE IF accs[2].key # expected_user_data.key
            THEN Fail("InvalidAccountData", "Invalid user data account address", ev, L)
            ELSE VaultChecked(user_data,
                    create_program_address(
                        <<VAULT_SEED, accs[1].key, user_data.vault_bump>>, program_id))
        Decoded(d) ==
            IF ~d.ok
            THEN Fail("InvalidAccountData", "Failed to deserialize user account data",
                      <<"accounts", "signer", "system_program">>, L)
            ELSE IF ~belongs_to(d.rec, accs[1])
            THEN Fail("InvalidAccountData",
                      "User account does not belong to the requesting user",
                      <<"accounts", "signer", "system_program", "decode">>, L)
            ELSE AddressChecked(d.rec,
                    create_program_address(<<accs[1].key, d.rec.user_bump>>, program_id))
    IN  Decoded(UserAccountTryFromSlice(L[accs[2].key].data))

native_process_instruction(program_id, L, accs, instruction_data) ==
    LET Dispatch(instruction) ==
            IF ~instruction.ok THEN Fail("InvalidInstructionData", "", <<>>, L)
            ELSE IF instruction.op = "Deposit"
            THEN native_process_deposit(program_id, L, accs, instruction.amount)
            ELSE native_process_withdraw(program_id, L, accs, instruction.amount)
    IN  Dispatch(ProgramInstructionUnpack(instruction_data))

(***************************************************************************)
(* The Pinocchio program.                                                  *)
(***************************************************************************)
\* process_deposit, lines 100-146: inside the branch taken when the program
\* does not own the user data account, the address check, the creation and
\* the first write of the record.
PinocchioCreateUserData(program_id, L, accs, vault_bump, ev) ==
    LET user == accs[1].key
        user_data == accs[2].key
        ev1 == ev \o <<"user_data_address", "cpi_create_account">>
        AfterWrite(L1, w) ==
            IF ~w.ok THEN Fail("InvalidAccountData", "", ev1, L1)
            ELSE Done(ev1 \o <<"write_user_data">>,
                      [L1 EXCEPT ![user_data].data = w.data])
        AfterCreate(c, user_bump) ==
            IF c.err # "Ok" THEN Fail(c.err, "", ev1, c.accts)
            ELSE AfterWrite(c.accts,
                    WriteInto(c.accts[user_data].data,
                        UserAccountSerialize(
                            NewUserAccount(user, user_bump, vault_bump))))
        Checked(expected_user_data) ==
            IF user_data # expected_user_data.key
            THEN Fail("InvalidAccountData", "Invalid user data account address", ev, L)
            ELSE AfterCreate(
                    invoke_signed(L, program_id,
                        CreateAccountIx(user, user_data, RentExemptMinimum,
                                        UserAccountSIZE, program_id),
                        TxSigners(accs), {<<user, expected_user_data.bump>>}),
                    expected_user_data.bump)
    IN  Checked(find_program_address(<<user>>, program_id))

\* The record written again by a Deposit that finds the account owned by
\* the program already.
PinocchioDepositInitRewrites(program_id, L, accs, vault_bump, ev) ==
    LET AfterWrite(w) ==
            IF ~w.ok THEN Fail("InvalidAccountData", "", ev, L)
            ELSE Done(ev \o <<"write_user_data">>,
                      [L EXCEPT ![accs[2].key].data = w.data])
    IN  IF ~owned_by_program(L[accs[2].key], program_id)
        THEN PinocchioCreateUserData(program_id, L, accs, vault_bump, ev)
        ELSE AfterWrite(
                WriteInto(L[accs[2].key].data,
                    UserAccountSerialize(
                        NewUserAccount(accs[1].key,
                            find_program_address(<<accs[1].key>>, program_id).bump,
                            vault_bump))))

\* process_deposit, lines 98-146: initialize the user data account unless
\* the program owns it already.
PinocchioDepositInit(program_id, L, accs, vault_bump, ev) ==
    IF owned_by_program(L[accs[2].key], program_id) THEN Done(ev, L)
    ELSE PinocchioCreateUserData(program_id, L, accs, vault_bump, ev)

\* process_deposit, lines 148-158: the transfer to the vault.
PinocchioDepositTransfer(program_id, L, accs, amount, ev) ==
    Outcome(invoke(L, program_id,
                   TransferIx(accs[1].key, accs[3].key, amount), TxSigners(accs)),
            "", ev \o <<"cpi_transfer">>)

pinocchio_process_deposit(program_id, L, accs, amount) ==
    IF ~FourAccounts(accs) THEN Fail("NotEnoughAccountKeys", "", <<>>, L)
    ELSE IF ~is_signer(accs[1])
    THEN Fail("MissingRequiredSignature", "User must sign the transaction",
              <<"accounts">>, L)
    ELSE IF ~is_system_program(accs[4])
    THEN Fail("InvalidAccountData", "Invalid system program",
              <<"accounts", "signer">>, L)
    ELSE
    LET AfterInit(i) ==
            IF i.err # "Ok" THEN i
            ELSE PinocchioDepositTransfer(program_id, i.accts, accs, amount, i.events)
        Checked(expected_vault) ==
            IF accs[3].key # expected_vault.key
            THEN Fail("InvalidAccountData", "Invalid vault account address",
                      <<"accounts", "signer", "system_program">>, L)
            ELSE AfterInit(
                    PinocchioDepositInit(program_id, L, accs, expected_vault.bump,
                        <<"accounts", "signer", "system_program", "vault_address">>))
    IN  Checked(find_program_address(<<VAULT_SEED, accs[1].key>>, program_id))

\* process_withdraw, lines 210-228: the transfer out of the vault, signed
\* with the vault's seeds and the stored bump.
PinocchioWithdrawTransfer(program_id, L, accs, amount, vault_bump, ev) ==
    Outcome(invoke_signed(L, program_id,
                TransferIx(accs[3].key, accs[1].key, amount), TxSigners(accs),
                {<<VAULT_SEED, accs[1].key, vault_bump>>}),
            "", ev \o <<"cpi_transfer">>)

pinocchio_process_withdraw(program_id, L, accs, amount) ==
    IF ~FourAccounts(accs) THEN Fail("NotEnoughAccountKeys", "", <<>>, L)
    ELSE IF ~is_signer(accs[1])
    THEN Fail("MissingRequiredSignature", "User must sign the transaction",
              <<"accounts">>, L)
    ELSE IF ~is_system_program(accs[4])
    THEN Fail("InvalidAccountData", "Invalid system program",
              <<"accounts", "signer">>, L)
    ELSE
    LET ev == <<"accounts", "signer", "system_program", "decode", "owner">>
        VaultChecked(user_data, expected_vault) ==
            IF ~expected_vault.ok THEN Fail("InvalidAccountData", "", ev, L)
            ELSE IF accs[3].key # expected_vault.key
            THEN Fail("InvalidAccountData", "Invalid vault account address", ev, L)
            ELSE PinocchioWithdrawTransfer(program_id, L, accs, amount,
                    user_data.vault_bump, ev \o <<"vault_address">>)
        Decoded(d) ==
            IF ~d.ok
            THEN Fail("InvalidAccountData", "",
                      <<"accounts", "signer", "system_program">>, L)
            ELSE IF ~belongs_to(d.rec, accs[1])
            THEN Fail("InvalidAccountData",
                      "User account does not belong to the requesting user",
                      <<"accounts", "signer", "system_program", "decode">>, L)
            ELSE VaultChecked(d.rec,
                    create_program_address(
                        <<VAULT_SEED, accs[1].key, d.rec.vault_bump>>, program_id))
    IN  Decoded(UserAccountTryFromSlice(L[accs[2].key].data))

pinocchio_process_instruction(program_id, L, accs, instruction_data) ==
    LET Dispatch(instruction) ==
            IF ~instruction.ok THEN Fail("InvalidInstructionData", "", <<>>, L)
            ELSE IF instruction.op = "Deposit"
            THEN pinocchio_process_deposit(program_id, L, accs, instruction.amount)
            ELSE pinocchio_process_withdraw(program_id, L, accs, instruction.amount)
    IN  Dispatch(ProgramInstructionUnpack(instruction_data))

(***************************************************************************)
(* The Anchor program.  The account structs Deposit and Withdraw are       *)
(* validated field by field, then their constraints are checked (those of  *)
(* an init field first), then the handler runs, then the accounts marked   *)
(* mut or init are written back.                                           *)
(***************************************************************************)
\* The eight bytes before an Anchor account's fields.
ACCOUNT_DISCRIMINATOR == <<211, 33, 136, 16, 186, 110, 242, 127>>
\* The eight bytes that select the handler.
SighashOf(op) ==
    IF op = "Deposit" THEN <<242, 35, 198, 137, 82, 225, 242, 182>>
    ELSE <<183, 18, 70, 156, 148, 109, 161, 34>>

\* space = 8 + UserAccount::INIT_SPACE
AnchorSpace == 8 + UserAccountSIZE

\* The payload the Anchor client builds from instruction::Deposit { amount }
\* or instruction::Withdraw { amount }.
AnchorInstructionData(op, amount) == SighashOf(op) \o DigitsLE(amount, 8)

\* The generated dispatch: the handler of the sighash, its arguments decoded
\* from the bytes behind.
AnchorInstructionUnpack(input) ==
    IF Len(input) < 8
    THEN [ok |-> FALSE, op |-> "Invalid", amount |-> 0,
          err |-> "InstructionFallbackNotFound"]
    ELSE IF SubSeq(input, 1, 8) \notin {SighashOf("Deposit"), SighashOf("Withdraw")}
    THEN [ok |-> FALSE, op |-> "Invalid", amount |-> 0,
          err |-> "InstructionFallbackNotFound"]
    ELSE IF Len(input) < 16
    THEN [ok |-> FALSE, op |-> "Invalid", amount |-> 0,
          err |-> "InstructionDidNotDeserialize"]
    ELSE [ok |-> TRUE,
          op |-> IF SubSeq(input, 1, 8) = SighashOf("Deposit")
                 THEN "Deposit" ELSE "Withdraw",
          amount |-> FromLE(SubSeq(input, 9, 16)),
          err |-> "Ok"]

\* Account<UserAccount>: the account must be owned by the program and hold
\* the discriminator and a record.
AnchorAccountTryFrom(program_id, acct) ==
    LET NoRecord == UserAccount(0, 0, 0, FALSE)
        Decoded(d) ==
            IF d.ok THEN [err |-> "Ok", rec |-> d.rec]
            ELSE [err |-> "AccountDidNotDeserialize", rec |-> d.rec]
    IN  IF acct.owner = SYSTEM_PROGRAM_ID /\ acct.lamports = 0
        THEN [err |-> "AccountNotInitialized", rec |-> NoRecord]
        ELSE IF acct.owner # program_id
        THEN [err |-> "AccountOwnedByWrongProgram", rec |-> NoRecord]
        ELSE IF Len(acct.data) < 8
        THEN [err |-> "AccountDiscriminatorNotFound", rec |-> NoRecord]
        ELSE IF SubSeq(acct.data, 1, 8) # ACCOUNT_DISCRIMINATOR
        THEN [err |-> "AccountDiscriminatorMismatch", rec |-> NoRecord]
        ELSE Decoded(UserAccountDeserialize(SubSeq(acct.data, 9, Len(acct.data))))

\* Account::try_from_unchecked, after init: the fields behind the first
\* eight bytes, whatever those are.
AnchorAccountTryFromUnchecked(acct) ==
    LET Decoded(d) ==
            IF Len(acct.data) >= 8 /\ d.ok THEN [err |-> "Ok", rec |-> d.rec]
            ELSE [err |-> "AccountDidNotDeserialize", rec |-> d.rec]
    IN  Decoded(UserAccountDeserialize(SubSeq(acct.data, 9, Len(acct.data))))

\* Account::exit: the discriminator and the fields written back.
AnchorAccountExit(L, key, rec) ==
    LET Written(w) ==
            IF w.ok THEN [err |-> "Ok", accts |-> [L EXCEPT ![key].data = w.data]]
            ELSE [err |-> "AccountDidNotSerialize", accts |-> L]
    IN  Written(WriteInto(L[key].data,
                    ACCOUNT_DISCRIMINATOR \o UserAccountSerialize(rec)))

\* init_if_needed, payer = user, space, seeds = [user], bump (lines 72-79):
\* create the account when the system program owns it, load it otherwise,
\* and check space, owner and rent either way.
AnchorInitIfNeeded(program_id, L, accs, bump, ev) ==
    LET user == accs[1].key
        field == accs[2].key
        seeds == {<<user, bump>>}
        fresh == L[field].owner = SYSTEM_PROGRAM_ID
        ev1 == IF fresh THEN ev \o <<"cpi_create_account">> ELSE ev
        required == IF RentExemptMinimum > L[field].lamports
                    THEN RentExemptMinimum - L[field].lamports ELSE 0
        Checked(L1, pa) ==
            [err |-> IF pa.err # "Ok" THEN pa.err
                     ELSE IF Len(L1[field].data) # AnchorSpace THEN "ConstraintSpace"
                     ELSE IF L1[field].owner # program_id THEN "ConstraintOwner"
                     ELSE IF L1[field].lamports < RentExemptMinimum
                     THEN "ConstraintRentExempt"
                     ELSE "Ok",
             events |-> ev1, accts |-> L1, rec |-> pa.rec]
        Loaded(created) ==
            IF created.err # "Ok"
            THEN [err |-> created.err, events |-> ev1, accts |-> created.accts,
                  rec |-> UserAccount(0, 0, 0, FALSE)]
            ELSE Checked(created.accts,
                    IF fresh THEN AnchorAccountTryFromUnchecked(created.accts[field])
                    ELSE AnchorAccountTryFrom(program_id, created.accts[field]))
        Funded(funded) ==
            IF funded.err # "Ok" THEN funded
            ELSE invoke_signed(funded.accts, program_id,
                    [kind |-> "allocate_assign", from |-> user, to |-> field,
                     lamports |-> 0, space |-> AnchorSpace, owner |-> program_id],
                    TxSigners(accs), seeds)
    IN  Loaded(IF ~fresh THEN [err |-> "Ok", accts |-> L]
               ELSE IF L[field].lamports = 0
               THEN invoke_signed(L, program_id,
                        CreateAccountIx(user, field, RentExemptMinimum, AnchorSpace,
                                        program_id),
                        TxSigners(accs), seeds)
               ELSE IF user = field
               THEN [err |-> "TryingToInitPayerAsProgramAccount", accts |-> L]
               ELSE Funded(IF required > 0
                           THEN invoke(L, program_id, TransferIx(user, field, required),
                                       TxSigners(accs))
                           ELSE [err |-> "Ok", accts |-> L]))

\* pub fn deposit (lines 11-35) and the write-back of user_account.
anchor_deposit(program_id, L, accs, amount, user_account, bumps, ev) ==
    LET rec == IF ~user_account.is_initialized
               THEN NewUserAccount(accs[1].key, bumps.user_account, bumps.vault)
               ELSE user_account
        ev1 == ev \o <<"cpi_transfer">>
        Exited(x) ==
            IF x.err # "Ok" THEN Fail(x.err, "", ev1, x.accts)
            ELSE Done(ev1 \o <<"write_user_data">>, x.accts)
        Transferred(t) ==
            IF t.err # "Ok" THEN Fail(t.err, "", ev1, t.accts)
            ELSE Exited(AnchorAccountExit(t.accts, accs[2].key, rec))
    IN  Transferred(invoke(L, program_id,
                           TransferIx(accs[1].key, accs[3].key, amount),
                           TxSigners(accs)))

\* #[derive(Accounts)] struct Deposit (lines 67-89), then deposit.
anchor_Deposit(program_id, L, accs, amount) ==
    IF Len(accs) < 4 THEN Fail("AccountNotEnoughKeys", "", <<>>, L)
    ELSE IF ~is_signer(accs[1]) THEN Fail("AccountNotSigner", "", <<"accounts">>, L)
    ELSE IF L[accs[3].key].owner # SYSTEM_PROGRAM_ID
    THEN Fail("AccountNotSystemOwned", "", <<"accounts", "signer">>, L)
    ELSE IF ~is_system_program(accs[4])
    THEN Fail("InvalidProgramId", "", <<"accounts", "signer">>, L)
    ELSE
    LET ev == <<"accounts", "signer", "system_program">>
        AfterInit(i, pda, vpda) ==
            IF i.err # "Ok" THEN Fail(i.err, "", i.events, i.accts)
            ELSE IF accs[3].key # vpda.key
            THEN Fail("ConstraintSeeds", "", i.events, i.accts)
            ELSE anchor_deposit(program_id, i.accts, accs, amount, i.rec,
                    [user_account |-> pda.bump, vault |-> vpda.bump],
                    i.events \o <<"vault_address">>)
        Checked(pda, vpda) ==
            IF accs[2].key # pda.key THEN Fail("ConstraintSeeds", "", ev, L)
            ELSE AfterInit(
                    AnchorInitIfNeeded(program_id, L, accs, pda.bump,
                                       ev \o <<"user_data_address">>),
                    pda, vpda)
    IN  Checked(find_program_address(<<accs[1].key>>, program_id),
                find_program_address(<<VAULT_SEED, accs[1].key>>, program_id))

\* pub fn withdraw (lines 37-64).
anchor_withdraw(program_id, L, accs, amount, user_account, ev) ==
    IF ~(L[accs[3].key].lamports >= amount)
    THEN Fail("InsufficientFunds", "Insufficient funds in the vault", ev, L)
    ELSE Outcome(invoke_signed(L, program_id,
                    TransferIx(accs[3].key, accs[1].key, amount), TxSigners(accs),
                    {<<VAULT_SEED, accs[1].key, user_account.vault_bump>>}),
                 "", ev \o <<"cpi_transfer">>)

\* #[derive(Accounts)] struct Withdraw (lines 91-110), then withdraw.
anchor_Withdraw(program_id, L, accs, amount) ==
    IF Len(accs) < 4 THEN Fail("AccountNotEnoughKeys", "", <<>>, L)
    ELSE IF ~is_signer(accs[1]) THEN Fail("AccountNotSigner", "", <<"accounts">>, L)
    ELSE
    LET ev == <<"accounts", "signer", "decode", "system_program">>
        Constrained(user_account, pda, vpda) ==
            IF ~pda.ok \/ accs[2].key # pda.key
            THEN Fail("ConstraintSeeds", "", ev, L)
            ELSE IF ~vpda.ok \/ accs[3].key # vpda.key
            THEN Fail("ConstraintSeeds", "", ev \o <<"user_data_address">>, L)
            ELSE anchor_withdraw(program_id, L, accs, amount, user_account,
                    ev \o <<"user_data_address", "vault_address">>)
        Loaded(ua) ==
            IF ua.err # "Ok" THEN Fail(ua.err, "", <<"accounts", "signer">>, L)
            ELSE IF L[accs[3].key].owner # SYSTEM_PROGRAM_ID
            THEN Fail("AccountNotSystemOwned", "", <<"accounts", "signer", "decode">>, L)
            ELSE IF ~is_system_program(accs[4])
            THEN Fail("InvalidProgramId", "", <<"accounts", "signer", "decode">>, L)
            ELSE Constrained(ua.rec,
                    create_program_address(<<accs[1].key, ua.rec.user_bump>>,
                                           program_id),
                    create_program_address(
                        <<VAULT_SEED, accs[1].key, ua.rec.vault_bump>>, program_id))
    IN  Loaded(AnchorAccountTryFrom(program_id, L[accs[2].key]))

anchor_process_instruction(program_id, L, accs, instruction_data) ==
    LET Dispatch(instruction) ==
            IF ~instruction.ok THEN Fail(instruction.err, "", <<>>, L)
            ELSE IF instruction.op = "Deposit"
            THEN anchor_Deposit(program_id, L, accs, instruction.amount)
            ELSE anchor_Withdraw(program_id, L, accs, instruction.amount)
    IN  Dispatch(AnchorInstructionUnpack(instruction_data))

(***************************************************************************)
(* The ledger host: one request at a time, applied whole or not at all.    *)
(***************************************************************************)
\* The entrypoint of the deployed program.
process_instruction(v, L, accs, instruction_data) ==
    CASE v = "native" ->
            native_process_instruction(ProgramIdOf(v), L, accs, instruction_data)
      [] v = "pinocchio" ->
            pinocchio_process_instruction(ProgramIdOf(v), L, accs, instruction_data)
      [] OTHER ->
            anchor_process_instruction(ProgramIdOf(v), L, accs, instruction_data)

\* The ledger kept as the program left it, error or not.
CommitWithoutRollback(L, out) == out.accts

\* What the host commits: the program's ledger when it returned Ok, the
\* ledger as it was before the request when it returned an error.
Commit(L, out) == IF out.err = "Ok" THEN out.accts ELSE L

\* The payload a client builds for the deployed program.
ClientPayload(v, op, amount) ==
    IF v = "anchor" THEN AnchorInstructionData(op, amount)
    ELSE ProgramInstructionSerialize(op, amount)

\* The operation and the amount a payload decodes to.
DecodedPayload(v, instruction_data) ==
    IF v = "anchor" THEN AnchorInstructionUnpack(instruction_data)
    ELSE ProgramInstructionUnpack(instruction_data)

\* The derived addresses of the model, by seed list.
UserPdaKeys(v) ==
    {create_program_address(<<p[1], p[2]>>, ProgramIdOf(v)).key :
        p \in {q \in Users \X Bumps :
                    create_program_address(<<q[1], q[2]>>, ProgramIdOf(v)).ok}}

VaultPdaKeys(v) ==
    {create_program_address(<<VAULT_SEED, p[1], p[2]>>, ProgramIdOf(v)).key :
        p \in {q \in Users \X Bumps :
                    create_program_address(<<VAULT_SEED, q[1], q[2]>>, ProgramIdOf(v)).ok}}

\* The address a client derives for a user's metadata record and vault.
UserDataOf(v, u) == find_user_account_address(u, ProgramIdOf(v)).key
VaultOf(v, u) == find_vault_address(u, ProgramIdOf(v)).key

\* AccountMeta::new(key, signed)
Meta(key, signed) == [key |-> key, is_signer |-> signed]

\* The account lists of the requests.  Signed by the acting wallet and with
\* the system program as fourth account: the metadata address of either
\* user or the forged account as metadata account, any vault-seeded address
\* (of either user, of any bump) as vault.
SignedLists(v) ==
    {<<Meta(u, TRUE), Meta(m, FALSE), Meta(c, FALSE), Meta(SYSTEM_PROGRAM_ID, FALSE)>> :
        u \in Users, m \in {UserDataOf(v, w) : w \in Users} \cup {ForgedKey},
        c \in VaultPdaKeys(v)}

\* Not signed, or with another key as fourth account, or both: the
\* addresses a client derives for the acting wallet or for the other one.
DeviantLists(v) ==
    {<<Meta(u, s[1]), Meta(UserDataOf(v, w), FALSE), Meta(VaultOf(v, w), FALSE),
       Meta(s[2], FALSE)>> :
        u \in Users, w \in Users,
        s \in {<<FALSE, SYSTEM_PROGRAM_ID>>, <<TRUE, ForgedKey>>,
               <<FALSE, ForgedKey>>}}

AccountLists(v) == SignedLists(v) \cup DeviantLists(v)

Payloads(v) == {ClientPayload(v, op, a) : op \in {"Deposit", "Withdraw"}, a \in Amounts}

\* Payloads no client of the deployed program builds: no byte at all, a tag
\* (a sighash) of no operation, an amount cut short, a byte behind the
\* amount.
MalformedPayloads(v) ==
    IF v = "anchor"
    THEN {<<>>,
          <<1, 2, 3, 4, 5, 6, 7, 8>> \o DigitsLE(1, 8),
          SighashOf("Deposit") \o <<1, 0, 0>>,
          AnchorInstructionData("Withdraw", 1) \o <<0>>}
    ELSE {<<>>,
          <<2>> \o DigitsLE(1, 8),
          <<0, 1, 0, 0>>,
          ProgramInstructionSerialize("Withdraw", 1) \o <<0>>}

\* The account lists these come with: what a client derives for each user,
\* and a list that is neither signed nor names the system program.
ClientLists(v) ==
    {<<Meta(u, TRUE), Meta(UserDataOf(v, u), FALSE), Meta(VaultOf(v, u), FALSE),
       Meta(SYSTEM_PROGRAM_ID, FALSE)>> : u \in Users}
    \cup {<<Meta(UserA, FALSE), Meta(UserDataOf(v, UserA), FALSE),
            Meta(VaultOf(v, UserA), FALSE), Meta(ForgedKey, FALSE)>>}

\* The requests the host receives: account list and payload.
Requests(v) ==
    (AccountLists(v) \X Payloads(v)) \cup (ClientLists(v) \X MalformedPayloads(v))

\* The bytes a foreign program may store in the forged account: a record in
\* the layout of the deployed program that names UserB as its owner, with
\* any vault bump.
ForgedRecords(v) ==
    {IF v = "anchor"
        THEN ACCOUNT_DISCRIMINATOR
                \o UserAccountSerialize(UserAccount(UserB, BumpMax, b, TRUE))
        ELSE UserAccountSerialize(UserAccount(UserB, BumpMax, b, TRUE)) :
        b \in Bumps}

Idle == [kind |-> "idle", accs |-> <<>>, data |-> <<>>,
         err |-> "", msg |-> "", events |-> <<>>]

\* No function applied on its own.
NoProbe == [fn |-> "none"]

Init ==
    /\ variant \in Variants
    /\ accounts = [k \in AccountKeys(variant) |->
                    IF k \in Users
                    THEN [EmptyAccount EXCEPT !.lamports = InitLamports]
                    ELSE IF k = Donor
                    THEN [EmptyAccount EXCEPT !.lamports = DonorLamports]
                    ELSE IF k = ForgedKey
                    THEN [EmptyAccount EXCEPT !.lamports = RentExemptMinimum,
                                              !.owner = FOREIGN_PROGRAM_ID]
                    ELSE EmptyAccount]
    /\ last = Idle
    /\ probe = NoProbe

\* The host runs one request against the ledger and commits its outcome.
Submit ==
    /\ last.kind = "idle"
    /\ \E rq \in Requests(variant) :
        \E out \in {process_instruction(variant, accounts, rq[1], rq[2])} :
            /\ accounts' = Commit(accounts, out)
            /\ last' = [kind |-> "instruction", accs |-> rq[1], data |-> rq[2],
                        err |-> out.err, msg |-> out.msg, events |-> out.events]
    /\ UNCHANGED <<variant, probe>>

\* The host is ready for the next request.
Return ==
    /\ last.kind = "instruction"
    /\ last' = Idle
    /\ UNCHANGED <<variant, accounts, probe>>

\* The donor sends its lamports to the address of a user's metadata record
\* or to a vault-seeded address no deposit goes to, with a plain system
\* transfer.
WalletTransfer ==
    /\ last.kind = "idle"
    /\ \E to \in {UserDataOf(variant, u) : u \in Users}
                \cup (VaultPdaKeys(variant) \ {VaultOf(variant, u) : u \in Users}) :
        \E t \in {SystemTransfer(accounts, Donor, to, DonorLamports)} :
            /\ t.err = "Ok"
            /\ accounts' = t.accts
    /\ UNCHANGED <<variant, last, probe>>

\* A foreign program stores bytes of its choice in the forged account.
Forge ==
    /\ last.kind = "idle"
    /\ \E bytes \in ForgedRecords(variant) :
        accounts' = [accounts EXCEPT ![ForgedKey].data = bytes]
    /\ UNCHANGED <<variant, last, probe>>

Next == Submit \/ Return \/ WalletTransfer \/ Forge

Spec == Init /\ [][Next]_vars

(***************************************************************************)
(* The functions of the client and of the program applied on their own,    *)
(* each once, to inputs drawn from the sets below.                         *)
(***************************************************************************)
\* Amounts of one, two, three and four significant bytes.
AmountSamples ==
    Amounts \cup {255, 256, 257, 65535, 65536, 16777215, 16777216, 2147483647}

\* The client serializes an instruction and the program unpacks the bytes.
SerializeUnpack ==
    /\ probe = NoProbe
    /\ \E op \in {"Deposit", "Withdraw"}, amount \in AmountSamples :
        \E bytes \in {ProgramInstructionSerialize(op, amount)} :
            probe' = [fn |-> "instruction", op |-> op, amount |-> amount,
                      bytes |-> bytes,
                      unpacked |-> ProgramInstructionUnpack(bytes)]
    /\ UNCHANGED <<variant, accounts, last>>

\* Keys of one to four significant bytes, and the bytes a bump can be.
KeySamples == Users \cup {255, 256, 65537, 16777216, 2147483647}
ByteSamples == {0, 1, 254, 255}
RecordSamples ==
    {UserAccount(k, ub, vb, f) :
        k \in KeySamples, ub \in ByteSamples, vb \in ByteSamples, f \in BOOLEAN}

\* The program serializes a record and reads it back with try_from_slice.
EncodeDecode ==
    /\ probe = NoProbe
    /\ \E r \in RecordSamples :
        \E bytes \in {UserAccountSerialize(r)} :
            probe' = [fn |-> "record", rec |-> r, bytes |-> bytes,
                      decoded |-> UserAccountTryFromSlice(bytes)]
    /\ UNCHANGED <<variant, accounts, last>>

\* Buffers around a serialized record: the record itself, nothing, the
\* record without its last byte, with a byte behind it, and with a flag
\* byte that is no bool.
BufferSamples ==
    UNION {{b, <<>>, SubSeq(b, 1, Len(b) - 1), b \o <<0>>,
            [b EXCEPT ![Len(b)] = 2], [b EXCEPT ![Len(b)] = 255]} :
           b \in {UserAccountSerialize(UserAccount(k, 255, 254, f)) :
                    k \in Users, f \in BOOLEAN}}

\* The program reads a buffer with try_from_slice.
DecodeBuffer ==
    /\ probe = NoProbe
    /\ \E bytes \in BufferSamples :
        probe' = [fn |-> "buffer", bytes |-> bytes,
                  decoded |-> UserAccountTryFromSlice(bytes)]
    /\ UNCHANGED <<variant, accounts, last>>

\* Seeds: the keys of the wallets and of two more (one that differs from
\* UserA in its second byte only), the label b"vault" and another label.
SeedSamples == Users \cup {Donor, UserA + 256} \cup {VAULT_SEED, VAULT_SEED + 1}
\* The seed lists with one seed changed.
SeedMutations(seeds) ==
    {[seeds EXCEPT ![i] = x] : i \in DOMAIN seeds, x \in SeedSamples} \ {seeds}

\* The program verifies a claimed address against seeds and a bump, and
\* every tuple that differs from this one in the claimed address, in the
\* bump or in one seed.
Verify ==
    /\ probe = NoProbe
    /\ \E seeds \in SeedLists, bump \in Bumps,
          claimed \in PdaKeys(ProgramIdOf(variant)) \cup {ForgedKey} :
        probe' = [fn |-> "verify", seeds |-> seeds, bump |-> bump,
                  program_id |-> ProgramIdOf(variant), claimed |-> claimed,
                  result |-> verify_address(seeds, bump, ProgramIdOf(variant), claimed),
                  changed |->
                    {verify_address(seeds, bump, ProgramIdOf(variant), c) :
                        c \in (PdaKeys(ProgramIdOf(variant)) \cup {ForgedKey})
                                \ {claimed}}
                    \cup {verify_address(seeds, b, ProgramIdOf(variant), claimed) :
                            b \in Bumps \ {bump}}
                    \cup {verify_address(m, bump, ProgramIdOf(variant), claimed) :
                            m \in SeedMutations(seeds)}]
    /\ UNCHANGED <<variant, accounts, last>>

PureNext == SerializeUnpack \/ EncodeDecode \/ DecodeBuffer \/ Verify

PureSpec == Init /\ [][PureNext]_vars

(***************************************************************************)
(* Requests with another number of accounts than four.                     *)
(***************************************************************************)
\* The account lists a client builds for a user, signed or not, cut to
\* their first n accounts (none to three), or with a fifth account behind
\* them.
OtherCountLists(v) ==
    LET Built(u, signed) ==
            <<Meta(u, signed), Meta(UserDataOf(v, u), FALSE),
              Meta(VaultOf(v, u), FALSE), Meta(SYSTEM_PROGRAM_ID, FALSE)>>
    IN  {SubSeq(Built(u, signed), 1, n) :
            u \in Users, signed \in BOOLEAN, n \in 0 .. 3}
        \cup {Append(Built(u, signed), Meta(extra, FALSE)) :
                u \in Users, signed \in BOOLEAN, extra \in {Donor, ForgedKey}}

\* The requests of clients, and their requests with accounts missing or
\* added.
CountRequests(v) ==
    ({l \in ClientLists(v) : l[1].is_signer} \cup OtherCountLists(v))
        \X Payloads(v)

\* The host runs one of these requests and commits its outcome.
SubmitAnyCount ==
    /\ last.kind = "idle"
    /\ \E rq \in CountRequests(variant) :
        \E out \in {process_instruction(variant, accounts, rq[1], rq[2])} :
            /\ accounts' = Commit(accounts, out)
            /\ last' = [kind |-> "instruction", accs |-> rq[1], data |-> rq[2],
                        err |-> out.err, msg |-> out.msg, events |-> out.events]
    /\ UNCHANGED <<variant, probe>>

CountNext == SubmitAnyCount \/ Return

CountSpec == Init /\ [][CountNext]_vars

(***************************************************************************)
(* One request, step by step.  The host hands the request to the           *)
(* entrypoint, the entrypoint decodes the payload, the handler goes        *)
(* through its checks and its calls of the system program in the order of  *)
(* its code, and the host commits the outcome when the handler returns.    *)
(* The program runs on the transaction's copy of the ledger: the ledger    *)
(* itself changes when the outcome is committed.                           *)
(***************************************************************************)
\* The number of requests the host takes in one behaviour.
MaxRequests == 2

\* The steps of a handler: its checks, and its changes of the ledger.
CheckEvents ==
    {"accounts", "signer", "system_program", "decode", "owner",
     "user_data_address", "vault_address"}
MutationEvents == {"cpi_create_account", "write_user_data", "cpi_transfer"}

\* The outcomes of the requests served so far, oldest first.
OutcomesOf(p) == IF p.fn = "requests" THEN p.outcomes ELSE <<>>

\* The run of the program on a request and the ledger the host took it at,
\* which the steps of the request follow.
RunOf(v, L, rq) == process_instruction(v, L, rq[1], rq[2])

\* A return that loses the handler's error.
ReturnedOk(l, out) ==
    [kind |-> "instruction", accs |-> l.accs, data |-> l.data,
     err |-> "Ok", msg |-> out.msg, events |-> out.events]

\* The position after a handler's return: Ok, or the error.
Returned(l, out) ==
    [kind |-> "instruction", accs |-> l.accs, data |-> l.data,
     err |-> out.err, msg |-> out.msg, events |-> out.events]

\* The host takes a request.
Receive ==
    /\ last.kind = "idle"
    /\ Len(OutcomesOf(probe)) < MaxRequests
    /\ \E rq \in Requests(variant) :
        \E out \in {RunOf(variant, accounts, rq)} :
            last' = [kind |-> "running", accs |-> rq[1], data |-> rq[2],
                     err |-> "", msg |-> "", events |-> <<>>,
                     decoded |-> FALSE, run |-> out]
    /\ UNCHANGED <<variant, accounts, probe>>

\* process_instruction: the payload unpacked.
Decode ==
    /\ last.kind = "running"
    /\ ~last.decoded
    /\ DecodedPayload(variant, last.data).ok
    /\ last' = [last EXCEPT !.decoded = TRUE]
    /\ UNCHANGED <<variant, accounts, probe>>

\* The handler passes its next check.
Check ==
    /\ last.kind = "running"
    /\ last.decoded
    /\ Len(last.events) < Len(last.run.events)
    /\ last.run.events[Len(last.events) + 1] \in CheckEvents
    /\ last' = [last EXCEPT
                    !.events = Append(@, last.run.events[Len(last.events) + 1])]
    /\ UNCHANGED <<variant, accounts, probe>>

\* The handler issues its next call of the system program, or writes the
\* record.
Mutate ==
    /\ last.kind = "running"
    /\ last.decoded
    /\ Len(last.events) < Len(last.run.events)
    /\ last.run.events[Len(last.events) + 1] \in MutationEvents
    /\ last' = [last EXCEPT
                    !.events = Append(@, last.run.events[Len(last.events) + 1])]
    /\ UNCHANGED <<variant, accounts, probe>>

\* The program returns and the host commits the outcome.
Finish ==
    /\ last.kind = "running"
    /\ last.decoded \/ ~DecodedPayload(variant, last.data).ok
    /\ last.events = last.run.events
    /\ last' = Returned(last, last.run)
    /\ accounts' = Commit(accounts, last.run)
    /\ probe' = [fn |-> "requests",
                 outcomes |-> Append(OutcomesOf(probe),
                                IF Returned(last, last.run).err = "Ok"
                                THEN "Applied" ELSE "Rejected")]
    /\ UNCHANGED variant

LifecycleNext == Receive \/ Decode \/ Check \/ Mutate \/ Finish \/ Return

\* A program the host has started runs until it returns.
LifecycleSpec ==
    /\ Init
    /\ [][LifecycleNext]_vars
    /\ WF_vars(Decode) /\ WF_vars(Check) /\ WF_vars(Mutate) /\ WF_vars(Finish)

(***************************************************************************)
(* Vocabulary of the properties.                                           *)
(***************************************************************************)
\* A step record l describes a request that was applied, or rejected.
AppliedIn(l) == l.kind = "instruction" /\ l.err = "Ok"
RejectedIn(l) == l.kind = "instruction" /\ l.err # "Ok"
\* The operation and the amount of its payload, its acting wallet and the
\* metadata account and vault it supplied.
OpOf(v, l) == DecodedPayload(v, l.data).op
AmountOf(v, l) == DecodedPayload(v, l.data).amount
ActorOf(l) == l.accs[1].key
MetaOf(l) == l.accs[2].key
CustodyOf(l) == l.accs[3].key
\* The request was signed by its acting wallet and names the system program.
WellFormed(l) ==
    /\ l.kind = "instruction"
    /\ Len(l.accs) = 4
    /\ l.accs[1].is_signer
    /\ l.accs[4].key = SYSTEM_PROGRAM_ID
\* The step issued a call to the system program.
IssuedCall(l) ==
    \E i \in 1 .. Len(l.events) : l.events[i] \in {"cpi_create_account", "cpi_transfer"}
Lamports(L, k) == L[k].lamports

(***************************************************************************)
(* C1.  The balance of the custody account derived for a user U decreases  *)
(* only in a step that is an applied Withdraw whose acting wallet is U and *)
(* signed the request: no Deposit, no Withdraw acting as another wallet,   *)
(* no rejected request and no step of the environment lowers it.           *)
(***************************************************************************)
C1_CustodyLeavesOnlyByOwnerWithdraw ==
    [][\A u \in Users :
        Lamports(accounts', VaultOf(variant, u)) < Lamports(accounts, VaultOf(variant, u))
        => /\ AppliedIn(last')
           /\ OpOf(variant, last') = "Withdraw"
           /\ ActorOf(last') = u
           /\ last'.accs[1].is_signer]_vars

\* An applied Withdraw of a positive amount by a user from its own custody
\* account.
C1_Witness ==
    /\ AppliedIn(last)
    /\ OpOf(variant, last) = "Withdraw"
    /\ AmountOf(variant, last) >= 1
    /\ CustodyOf(last) = VaultOf(variant, ActorOf(last))

(***************************************************************************)
(* The error kinds of the protocol, as the three programs report them.     *)
(* The native and the Pinocchio program return InvalidAccountData for most *)
(* rejections and tell them apart by the message they log (the Pinocchio   *)
(* program logs none when the vault address cannot be recomputed, right    *)
(* after the owner check); Anchor reports a violated seeds constraint.     *)
(***************************************************************************)
MissingSignature(l) == l.err \in {"MissingRequiredSignature", "AccountNotSigner"}

OwnershipMismatch(l) ==
    /\ l.err = "InvalidAccountData"
    /\ l.msg = "User account does not belong to the requesting user"

AddressMismatch(l) ==
    \/ /\ l.err = "InvalidAccountData"
       /\ l.msg \in {"Invalid user data account address",
                     "Invalid vault account address"}
    \/ l.err \in {"ConstraintSeeds", "InvalidSeeds"}
    \/ /\ l.err = "InvalidAccountData"
       /\ l.msg = ""
       /\ l.events # <<>>
       /\ l.events[Len(l.events)] = "owner"

InsufficientFunds(l) == l.err \in {"ResultWithNegativeLamports", "InsufficientFunds"}

\* The record the deployed program decodes from an account: the native and
\* the Pinocchio program with try_from_slice, Anchor by loading the account
\* as Account<UserAccount>.
RecordOf(v, acct) ==
    IF v = "anchor"
    THEN LET a == AnchorAccountTryFrom(ProgramIdOf(v), acct)
         IN  [ok |-> a.err = "Ok", rec |-> a.rec]
    ELSE UserAccountTryFromSlice(acct.data)

\* The metadata records of the ledger L: the accounts the program owns.
IsRecord(v, L, k) == owned_by_program(L[k], ProgramIdOf(v))

\* The step l is a signed Withdraw, run against the ledger L, whose metadata
\* account decodes to a record.
WithdrawWithRecord(v, L, l) ==
    /\ WellFormed(l)
    /\ OpOf(v, l) = "Withdraw"
    /\ RecordOf(v, L[MetaOf(l)]).ok

(***************************************************************************)
(* C2.  A signed Withdraw whose acting wallet V is not the owner stored in *)
(* the supplied metadata record, the record of another user U, is rejected *)
(* with OwnershipMismatch and changes no balance of the ledger.            *)
(***************************************************************************)
C2_NonOwnerWithdrawIsOwnershipMismatch ==
    [][(/\ WithdrawWithRecord(variant, accounts, last')
        /\ IsRecord(variant, accounts, MetaOf(last'))
        /\ RecordOf(variant, accounts[MetaOf(last')]).rec.user # ActorOf(last'))
       => /\ RejectedIn(last')
          /\ OwnershipMismatch(last')
          /\ \A k \in DOMAIN accounts :
                Lamports(accounts', k) = Lamports(accounts, k)]_vars

(***************************************************************************)
(* C3.  A signed Deposit or Withdraw (a Withdraw with a record that names  *)
(* the acting wallet) whose custody account is not the address derived     *)
(* from ["vault", acting wallet] is rejected with AddressMismatch, and the *)
(* program has issued no account creation and no transfer by then.         *)
(***************************************************************************)
C3_WrongCustodyIsAddressMismatch ==
    [][(/\ WellFormed(last')
        /\ OpOf(variant, last') \in {"Deposit", "Withdraw"}
        /\ OpOf(variant, last') = "Withdraw"
            => /\ RecordOf(variant, accounts[MetaOf(last')]).ok
               /\ RecordOf(variant, accounts[MetaOf(last')]).rec.user = ActorOf(last')
        /\ CustodyOf(last') # VaultOf(variant, ActorOf(last')))
       => /\ RejectedIn(last')
          /\ AddressMismatch(last')
          /\ ~IssuedCall(last')]_vars

(***************************************************************************)
(* C4.  Under each of the three programs a Withdraw is applied only if its *)
(* metadata account is the address recomputed from the acting wallet and   *)
(* the user_bump stored in the record; a signed Withdraw with any other    *)
(* metadata account whose bytes decode to a record naming the acting       *)
(* wallet is rejected with AddressMismatch.                                *)
(***************************************************************************)
C4_WithdrawRecomputesMetadataAddress ==
    [][(last'.kind = "instruction" /\ OpOf(variant, last') = "Withdraw")
       => LET d == RecordOf(variant, accounts[MetaOf(last')])
              expected == create_program_address(
                            <<ActorOf(last'), d.rec.user_bump>>, ProgramIdOf(variant))
              matches == d.ok /\ expected.ok /\ MetaOf(last') = expected.key
          IN  /\ AppliedIn(last') => matches
              /\ (/\ WithdrawWithRecord(variant, accounts, last')
                  /\ d.rec.user = ActorOf(last')
                  /\ ~matches)
                 => RejectedIn(last') /\ AddressMismatch(last')]_vars

\* The step asked for the creation of the metadata account.
Created(l) == \E i \in 1 .. Len(l.events) : l.events[i] = "cpi_create_account"

(***************************************************************************)
(* C5.  A metadata record is initialized at most once: an account the      *)
(* program owns stays the program's and keeps its record (user, user_bump, *)
(* vault_bump) in every step; an account becomes a record only in an       *)
(* applied Deposit that created it; and an applied Deposit that finds the  *)
(* record skips the creation.                                              *)
(***************************************************************************)
C5_RecordInitializedAtMostOnce ==
    [][/\ \A k \in DOMAIN accounts :
            IsRecord(variant, accounts, k)
            => /\ IsRecord(variant, accounts', k)
               /\ \/ accounts'[k] = accounts[k]
                  \/ RecordOf(variant, accounts'[k]) = RecordOf(variant, accounts[k])
       /\ \A k \in DOMAIN accounts :
            (IsRecord(variant, accounts', k) /\ ~IsRecord(variant, accounts, k))
            => /\ AppliedIn(last')
               /\ OpOf(variant, last') = "Deposit"
               /\ Created(last')
               /\ k = MetaOf(last')
       /\ (/\ AppliedIn(last')
           /\ OpOf(variant, last') = "Deposit"
           /\ IsRecord(variant, accounts, MetaOf(last')))
          => ~Created(last')]_vars

\* A later Deposit by a user whose record exists: applied without creation.
C5_Witness ==
    /\ AppliedIn(last)
    /\ OpOf(variant, last) = "Deposit"
    /\ ~Created(last)
    /\ MetaOf(last) = UserDataOf(variant, ActorOf(last))
    /\ IsRecord(variant, accounts, MetaOf(last))

(***************************************************************************)
(* C6.  Every account the program owns holds a self-consistent record: it  *)
(* decodes, it is stored at the address derived from [user], its user_bump *)
(* is the bump of that derivation, its vault_bump is the bump of deriving  *)
(* ["vault", user], and is_initialized is true.                            *)
(***************************************************************************)
C6_RecordsSelfConsistent ==
    \A k \in DOMAIN accounts :
        IsRecord(variant, accounts, k)
        => LET d == RecordOf(variant, accounts[k])
               own == find_user_account_address(d.rec.user, ProgramIdOf(variant))
               vault == find_vault_address(d.rec.user, ProgramIdOf(variant))
           IN  /\ d.ok
               /\ own.ok /\ k = own.key /\ d.rec.user_bump = own.bump
               /\ vault.ok /\ d.rec.vault_bump = vault.bump
               /\ d.rec.is_initialized

\* Both users have a record, one of them with two different bumps.
C6_Witness ==
    /\ \A u \in Users : IsRecord(variant, accounts, UserDataOf(variant, u))
    /\ \E u \in Users :
        LET r == RecordOf(variant, accounts[UserDataOf(variant, u)]).rec
        IN  r.user_bump # r.vault_bump

(***************************************************************************)
(* C7.  An applied Deposit of amount a by user U raises the balance of U's *)
(* vault by exactly a, whether or not it created U's record, and takes the *)
(* a lamports from U: U's balance falls by a plus what U paid into the     *)
(* metadata account, which is nothing unless the account was created and   *)
(* at most the rent-exempt minimum then.                                   *)
(***************************************************************************)
C7_DepositCreditsCustodyExactly ==
    [][(AppliedIn(last') /\ OpOf(variant, last') = "Deposit")
       => LET u == ActorOf(last')
              a == AmountOf(variant, last')
              c == VaultOf(variant, u)
              m == MetaOf(last')
              paid == Lamports(accounts', m) - Lamports(accounts, m)
          IN  /\ Lamports(accounts', c) = Lamports(accounts, c) + a
              /\ Lamports(accounts', u) = Lamports(accounts, u) - a - paid
              /\ paid >= 0 /\ paid <= RentExemptMinimum
              /\ ~Created(last') => paid = 0]_vars

\* A first Deposit of a positive amount, applied.
C7_Witness ==
    /\ AppliedIn(last)
    /\ OpOf(variant, last) = "Deposit"
    /\ AmountOf(variant, last) >= 1
    /\ Created(last)

(***************************************************************************)
(* C8.  An applied Withdraw of amount w by user U lowers the balance of    *)
(* U's vault by exactly w and raises U's balance by exactly w; no other    *)
(* account changes.                                                        *)
(***************************************************************************)
C8_WithdrawMovesExactly ==
    [][(AppliedIn(last') /\ OpOf(variant, last') = "Withdraw")
       => LET u == ActorOf(last')
              w == AmountOf(variant, last')
              c == VaultOf(variant, u)
          IN  /\ Lamports(accounts', c) = Lamports(accounts, c) - w
              /\ Lamports(accounts', u) = Lamports(accounts, u) + w
              /\ \A k \in DOMAIN accounts \ {u, c} : accounts'[k] = accounts[k]]_vars

(***************************************************************************)
(* C9.  A signed Withdraw by the owner of a record, with the record and    *)
(* the vault derived for the owner, whose amount exceeds the balance of    *)
(* the vault is rejected with InsufficientFunds and leaves the balances of *)
(* the vault and of the owner as they were; and no balance of the ledger   *)
(* is ever negative.                                                       *)
(***************************************************************************)
C9_OverdrawIsInsufficientFunds ==
    [][/\ (/\ WellFormed(last')
           /\ OpOf(variant, last') = "Withdraw"
           /\ MetaOf(last') = UserDataOf(variant, ActorOf(last'))
           /\ IsRecord(variant, accounts, MetaOf(last'))
           /\ CustodyOf(last') = VaultOf(variant, ActorOf(last'))
           /\ AmountOf(variant, last') > Lamports(accounts, CustodyOf(last')))
          => /\ RejectedIn(last')
             /\ InsufficientFunds(last')
             /\ Lamports(accounts', CustodyOf(last')) = Lamports(accounts, CustodyOf(last'))
             /\ Lamports(accounts', ActorOf(last')) = Lamports(accounts, ActorOf(last'))
       /\ \A k \in DOMAIN accounts : Lamports(accounts', k) >= 0]_vars

\* After a Deposit of two and a Withdraw of one, a Withdraw of more than
\* the vault holds was rejected and the vault still holds one.
C9_Witness ==
    /\ RejectedIn(last)
    /\ InsufficientFunds(last)
    /\ OpOf(variant, last) = "Withdraw"
    /\ CustodyOf(last) = VaultOf(variant, ActorOf(last))
    /\ Lamports(accounts, CustodyOf(last)) = 1
    /\ Lamports(accounts, ActorOf(last)) = InitLamports - RentExemptMinimum - 1

NotInitializedOrMalformed(v, l) ==
    CASE v = "native" ->
            /\ l.err = "InvalidAccountData"
            /\ l.msg = "Failed to deserialize user account data"
      [] v = "pinocchio" ->
            /\ l.err = "InvalidAccountData"
            /\ l.msg = ""
            /\ l.events = <<"accounts", "signer", "system_program">>
      [] OTHER ->
            l.err \in {"AccountNotInitialized", "AccountOwnedByWrongProgram",
                       "AccountDiscriminatorNotFound", "AccountDiscriminatorMismatch",
                       "AccountDidNotDeserialize"}

(***************************************************************************)
(* C11.  A signed Withdraw whose metadata account does not decode to a     *)
(* record is rejected with AccountNotInitialized / Malformed and changes   *)
(* no balance; a Withdraw by U is applied only when U's metadata record    *)
(* exists; and U's record comes to exist only in an applied Deposit by U.  *)
(* Hence every applied Withdraw by U follows an applied Deposit by U.      *)
(***************************************************************************)
C11_WithdrawNeedsDepositedRecord ==
    [][/\ (/\ WellFormed(last')
           /\ OpOf(variant, last') = "Withdraw"
           /\ ~RecordOf(variant, accounts[MetaOf(last')]).ok)
          => /\ RejectedIn(last')
             /\ NotInitializedOrMalformed(variant, last')
             /\ \A k \in DOMAIN accounts :
                    Lamports(accounts', k) = Lamports(accounts, k)
       /\ (AppliedIn(last') /\ OpOf(variant, last') = "Withdraw")
          => IsRecord(variant, accounts, UserDataOf(variant, ActorOf(last')))
       /\ \A u \in Users :
            (/\ IsRecord(variant, accounts', UserDataOf(variant, u))
             /\ ~IsRecord(variant, accounts, UserDataOf(variant, u)))
            => /\ AppliedIn(last')
               /\ OpOf(variant, last') = "Deposit"
               /\ ActorOf(last') = u]_vars

(***************************************************************************)
(* C12.  A Deposit or Withdraw whose first account has not signed is       *)
(* rejected with MissingSignature and leaves the ledger as it was,         *)
(* whatever its other accounts (also a fourth account that is not the      *)
(* system program), its amount and the contents of the record.             *)
(***************************************************************************)
C12_UnsignedIsMissingSignature ==
    [][(/\ last'.kind = "instruction"
        /\ OpOf(variant, last') \in {"Deposit", "Withdraw"}
        /\ ~last'.accs[1].is_signer)
       => /\ RejectedIn(last')
          /\ MissingSignature(last')
          /\ accounts' = accounts]_vars

\* An unsigned Withdraw of a positive amount that names a record of the
\* program, the wallet of that record as acting identity, a vault that
\* holds enough, and not the system program.
C12_Witness ==
    /\ RejectedIn(last)
    /\ MissingSignature(last)
    /\ ~last.accs[1].is_signer
    /\ OpOf(variant, last) = "Withdraw"
    /\ IsRecord(variant, accounts, MetaOf(last))
    /\ MetaOf(last) = UserDataOf(variant, ActorOf(last))
    /\ AmountOf(variant, last) >= 1
    /\ Lamports(accounts, CustodyOf(last)) >= AmountOf(variant, last)
    /\ last.accs[4].key # SYSTEM_PROGRAM_ID

\* The fourth account is not the system program: the native and the
\* Pinocchio program log it and return InvalidAccountData, Anchor fails to
\* load Program<'info, System>.
InvalidProgramReference(l) ==
    \/ l.err = "InvalidAccountData" /\ l.msg = "Invalid system program"
    \/ l.err = "InvalidProgramId"

(***************************************************************************)
(* C13.  A signed Deposit or Withdraw whose fourth account is not the      *)
(* system program is rejected with InvalidProgramReference and leaves the  *)
(* ledger as it was, whatever the metadata account and the vault are.      *)
(***************************************************************************)
C13_WrongSystemProgramIsInvalidReference ==
    [][(/\ last'.kind = "instruction"
        /\ OpOf(variant, last') \in {"Deposit", "Withdraw"}
        /\ last'.accs[1].is_signer
        /\ last'.accs[4].key # SYSTEM_PROGRAM_ID)
       => /\ RejectedIn(last')
          /\ InvalidProgramReference(last')
          /\ accounts' = accounts]_vars

\* The payload is none the program decodes.
InvalidInstruction(l) ==
    l.err \in {"InvalidInstructionData", "InstructionFallbackNotFound",
               "InstructionDidNotDeserialize"}

\* The payload has the layout of section 6: nine bytes, the first 0 or 1.
NineByteLayout(data) == Len(data) = 9 /\ data[1] \in {0, 1}

\* The payload has the layout the deployed program decodes: the nine bytes
\* for the native and the Pinocchio program; for Anchor the sighash of a
\* handler and at least the eight bytes of the amount behind it.
DeployedLayout(v, data) ==
    IF v = "anchor"
    THEN /\ Len(data) >= 16
         /\ SubSeq(data, 1, 8) \in {SighashOf("Deposit"), SighashOf("Withdraw")}
    ELSE NineByteLayout(data)

C15_PayloadRoundTrips ==
    probe.fn = "instruction"
    => /\ Len(probe.bytes) = 9
       /\ probe.bytes[1] = (IF probe.op = "Deposit" THEN 0 ELSE 1)
       /\ \A i \in 1 .. 4 :
            probe.bytes[i + 1] = (probe.amount \div (256 ^ (i - 1))) % 256
       /\ \A i \in 5 .. 8 : probe.bytes[i + 1] = 0
       /\ probe.unpacked.ok
       /\ probe.unpacked.op = probe.op
       /\ probe.unpacked.amount = probe.amount

\* A Withdraw of an amount whose four low bytes all differ from zero.
C15_Witness ==
    /\ probe.fn = "instruction"
    /\ probe.op = "Withdraw"
    /\ \A i \in 2 .. 5 : probe.bytes[i] # 0
    /\ probe.unpacked.amount = probe.amount

(***************************************************************************)
(* C16.  The record codec round-trips and fails closed: a record (owner,   *)
(* two bump bytes, flag) serializes to 32 + 1 + 1 + 1 bytes that           *)
(* try_from_slice decodes to the same record, and try_from_slice fails on  *)
(* a buffer of any other length and on a flag byte other than 0 or 1 (and  *)
(* on no other buffer).                                                    *)
(***************************************************************************)
C16_RecordCodecRoundTrips ==
    /\ probe.fn = "record"
       => /\ Len(probe.bytes) = 32 + 1 + 1 + 1
          /\ probe.decoded.ok
          /\ probe.decoded.rec = probe.rec
    /\ probe.fn = "buffer"
       => (probe.decoded.ok
           <=> /\ Len(probe.bytes) = 32 + 1 + 1 + 1
               /\ probe.bytes[Len(probe.bytes)] \in {0, 1})

\* A record with a key of three bytes, two different bumps and the flag
\* not set, decoded from its bytes.
C16_Witness ==
    /\ probe.fn = "record"
    /\ probe.rec.user = 65537
    /\ probe.rec.user_bump # probe.rec.vault_bump
    /\ ~probe.rec.is_initialized
    /\ probe.decoded.rec = probe.rec

(***************************************************************************)
(* C17.  Verification of an address is exact and fails closed: it accepts  *)
(* a claimed address if and only if create_program_address of the seeds    *)
(* and the bump gives an address and the claimed address is that one; a    *)
(* bump for which there is no address is an error; and no tuple that       *)
(* differs from an accepted one in the claimed address, in the bump or in  *)
(* one seed is accepted.                                                   *)
(***************************************************************************)
C17_VerifyIsExact ==
    probe.fn = "verify"
    => LET combined == create_program_address(probe.seeds \o <<probe.bump>>,
                                              probe.program_id)
       IN  /\ probe.result = "Ok"
              <=> (combined.ok /\ probe.claimed = combined.key)
           /\ ~combined.ok => probe.result = "InvalidSeeds"
           /\ probe.result = "Ok" => "Ok" \notin probe.changed

\* An accepted tuple whose bump is not the one the search finds, with a
\* changed tuple that is an error and one that is a mismatch.
C17_Witness ==
    /\ probe.fn = "verify"
    /\ probe.result = "Ok"
    /\ probe.bump # find_program_address(probe.seeds, probe.program_id).bump
    /\ probe.changed = {"InvalidSeeds", "InvalidAccountData"}

\* The request was built by a client for its own signer: signed, with the
\* addresses find_user_account_address and find_vault_address give for the
\* signer, the system program, and a payload of the deployed program.
ClientBuilt(v, l) ==
    /\ WellFormed(l)
    /\ OpOf(v, l) \in {"Deposit", "Withdraw"}
    /\ MetaOf(l) = find_user_account_address(ActorOf(l), ProgramIdOf(v)).key
    /\ CustodyOf(l) = find_vault_address(ActorOf(l), ProgramIdOf(v)).key

\* The program compared the vault with the address it derived, and went on.
PassedVaultCheck(l) == \E i \in 1 .. Len(l.events) : l.events[i] = "vault_address"

(***************************************************************************)
(* C18.  Derivation is a function of the seeds and the program: the        *)
(* address and the bump a client derives for a user with                   *)
(* find_user_account_address and find_vault_address are those the program  *)
(* derives from [user] and ["vault", user], so a request a client built    *)
(* for its own signer is never rejected with AddressMismatch, and when it  *)
(* is applied it has passed the check of the vault address.                *)
(***************************************************************************)
C18_ClientAddressesPassValidation ==
    [][ClientBuilt(variant, last')
       => /\ ~AddressMismatch(last')
          /\ AppliedIn(last') => PassedVaultCheck(last')
          /\ find_user_account_address(ActorOf(last'), ProgramIdOf(variant))
             = find_program_address(<<ActorOf(last')>>, ProgramIdOf(variant))
          /\ find_vault_address(ActorOf(last'), ProgramIdOf(variant))
             = find_program_address(<<VAULT_SEED, ActorOf(last')>>,
                                    ProgramIdOf(variant))]_vars

\* A client-built Withdraw, applied, of a user one of whose addresses the
\* search finds below the first bump.
C18_Witness ==
    /\ ClientBuilt(variant, last)
    /\ AppliedIn(last)
    /\ OpOf(variant, last) = "Withdraw"
    /\ PassedVaultCheck(last)
    /\ \/ find_vault_address(ActorOf(last), ProgramIdOf(variant)).bump # BumpMax
       \/ find_user_account_address(ActorOf(last), ProgramIdOf(variant)).bump # BumpMax

\* The checks every handler makes of a request: its signature, the system
\* program it names and the address of its vault.
CommonChecks == {"signer", "system_program", "vault_address"}

\* Where the request of a step record l stands.
PhaseOf(l) ==
    IF l.kind = "idle" THEN "None"
    ELSE IF l.kind = "instruction"
    THEN IF l.err = "Ok" THEN "Applied" ELSE "Rejected"
    ELSE IF ~l.decoded THEN "Received"
    ELSE IF CommonChecks \subseteq {l.events[i] : i \in 1 .. Len(l.events)}
    THEN "Validated"
    ELSE "Decoded"

\* The moves of a request from one phase to the next.
PhaseMoves ==
    {<<"None", "Received">>, <<"Received", "Decoded">>,
     <<"Decoded", "Validated">>, <<"Validated", "Applied">>,
     <<"Received", "Rejected">>, <<"Decoded", "Rejected">>,
     <<"Validated", "Rejected">>,
     <<"Applied", "None">>, <<"Rejected", "None">>}

(***************************************************************************)
(* C19.  A request goes Decoded -> Validated -> Applied | Rejected: it     *)
(* changes phase along these moves only, so it is applied only from        *)
(* Validated and leaves Applied or Rejected only when the host is done     *)
(* with it; the outcome the host recorded for a request is one of Applied  *)
(* and Rejected, is the phase the request ended in, and never changes      *)
(* afterwards; and every request the host has taken reaches Applied or     *)
(* Rejected.                                                               *)
(***************************************************************************)
C19_RequestLifecycle ==
    /\ [][/\ PhaseOf(last') # PhaseOf(last)
             => <<PhaseOf(last), PhaseOf(last')>> \in PhaseMoves
          /\ PhaseOf(last) \in {"Applied", "Rejected"}
             => last' = last \/ last' = Idle
          /\ \A i \in 1 .. Len(OutcomesOf(probe)) :
                /\ i <= Len(OutcomesOf(probe'))
                /\ OutcomesOf(probe')[i] = OutcomesOf(probe)[i]
          /\ Len(OutcomesOf(probe')) # Len(OutcomesOf(probe))
             => /\ Len(OutcomesOf(probe')) = Len(OutcomesOf(probe)) + 1
                /\ PhaseOf(last') \in {"Applied", "Rejected"}
                /\ OutcomesOf(probe')[Len(OutcomesOf(probe'))] = PhaseOf(last')
                /\ PhaseOf(last) \notin {"Applied", "Rejected", "None"}]_vars
    /\ (last.kind = "running") ~> (PhaseOf(last) \in {"Applied", "Rejected"})

\* The second request of a behaviour, a Withdraw, applied after a first that
\* was applied too.
C19_Witness ==
    /\ OutcomesOf(probe) = <<"Applied", "Applied">>
    /\ PhaseOf(last) = "Applied"
    /\ OpOf(variant, last) = "Withdraw"
    /\ \E i \in 1 .. Len(last.events) : last.events[i] = "cpi_transfer"

\* The checks a request of its operation has to pass: those of a Deposit,
\* and for a Withdraw the decoding of the record and its owner as well.
PreconditionChecks(v, l) ==
    {"accounts", "signer", "system_program", "user_data_address", "vault_address"}
        \cup IF OpOf(v, l) = "Withdraw" THEN {"decode", "owner"} ELSE {}

\* The steps of the request before its first change of the ledger.
BeforeFirstMutation(l) ==
    {l.events[i] : i \in {j \in 1 .. Len(l.events) :
        \A k \in 1 .. j : l.events[k] \notin MutationEvents}}

\* The handler itself refused the request.
ValidationFailure(v, l) ==
    \/ MissingSignature(l)
    \/ InvalidProgramReference(l)
    \/ AddressMismatch(l)
    \/ OwnershipMismatch(l)
    \/ NotInitializedOrMalformed(v, l)
    \/ l.err \in {"NotEnoughAccountKeys", "AccountNotEnoughKeys"}

(***************************************************************************)
(* C20.  In a request that issued a change of the ledger (an account       *)
(* creation, a write of the record or a transfer), all the precondition    *)
(* checks of its operation (account count, signature, system program,      *)
(* metadata address, vault address, and for a Withdraw the decoding of the *)
(* record and its owner) were passed before the first change, no check     *)
(* came after a change, and the request was not refused by a check of the  *)
(* handler.                                                                *)
(***************************************************************************)
C20_ChecksBeforeFirstMutation ==
    (/\ last.kind = "instruction"
     /\ \E i \in 1 .. Len(last.events) : last.events[i] \in MutationEvents)
    => /\ PreconditionChecks(variant, last) \subseteq BeforeFirstMutation(last)
       /\ \A i \in 1 .. Len(last.events) :
            last.events[i] \in CheckEvents
                => last.events[i] \in BeforeFirstMutation(last)
       /\ ~ValidationFailure(variant, last)

\* The width of the metadata account the deployed program creates:
\* UserAccount::SIZE, and for Anchor the discriminator before it.
RecordSpace(v) == IF v = "anchor" THEN AnchorSpace ELSE UserAccountSIZE

(***************************************************************************)
(* C21 as stated.  An applied Deposit by U whose metadata account the      *)
(* program did not own creates it: afterwards the program owns it, it has  *)
(* the fixed width of a record, it holds the rent-exempt minimum more than *)
(* before and U paid that minimum besides the amount, and its record is    *)
(* (U, bump of [U], bump of ["vault", U], initialized).  An applied        *)
(* Deposit whose metadata account the program owned already issues no      *)
(* creation and leaves the account's bytes and owner as they were.         *)
(***************************************************************************)
C21_FirstDepositFundedByUser ==
    [][(AppliedIn(last') /\ OpOf(variant, last') = "Deposit")
       => LET u == ActorOf(last')
              m == MetaOf(last')
              a == AmountOf(variant, last')
          IN  IF ~IsRecord(variant, accounts, m)
              THEN /\ Created(last')
                   /\ accounts'[m].owner = ProgramIdOf(variant)
                   /\ Len(accounts'[m].data) = RecordSpace(variant)
                   /\ Lamports(accounts', m)
                        = Lamports(accounts, m) + RentExemptMinimum
                   /\ Lamports(accounts', u)
                        = Lamports(accounts, u) - a - RentExemptMinimum
                   /\ RecordOf(variant, accounts'[m])
                        = [ok |-> TRUE,
                           rec |-> UserAccount(u,
                                     find_user_account_address(
                                        u, ProgramIdOf(variant)).bump,
                                     find_vault_address(
                                        u, ProgramIdOf(variant)).bump,
                                     TRUE)]
              ELSE /\ ~Created(last')
                   /\ accounts'[m].data = accounts[m].data
                   /\ accounts'[m].owner = accounts[m].owner]_vars

\* What the metadata address lacks of the rent-exempt minimum.
Shortfall(L, m) ==
    IF Lamports(L, m) < RentExemptMinimum
    THEN RentExemptMinimum - Lamports(L, m) ELSE 0

(***************************************************************************)
(* C21.  An applied Deposit by U whose metadata account the program did    *)
(* not own creates it: afterwards the program owns it, it has the fixed    *)
(* width of a record, it holds at least the rent-exempt minimum, U paid    *)
(* what the address lacked of that minimum (all of it when the address     *)
(* held nothing) besides the amount, and its record is (U, bump of [U],    *)
(* bump of ["vault", U], initialized).  An applied Deposit whose metadata  *)
(* account the program owned already issues no creation and leaves the     *)
(* account's bytes and owner as they were.                                 *)
(***************************************************************************)
C21_FirstDepositCreatesRecord ==
    [][(AppliedIn(last') /\ OpOf(variant, last') = "Deposit")
       => LET u == ActorOf(last')
              m == MetaOf(last')
              a == AmountOf(variant, last')
          IN  IF ~IsRecord(variant, accounts, m)
              THEN /\ Created(last')
                   /\ accounts'[m].owner = ProgramIdOf(variant)
                   /\ Len(accounts'[m].data) = RecordSpace(variant)
                   /\ Lamports(accounts', m) >= RentExemptMinimum
                   /\ Lamports(accounts', m)
                        = Lamports(accounts, m) + Shortfall(accounts, m)
                   /\ Lamports(accounts', u)
                        = Lamports(accounts, u) - a - Shortfall(accounts, m)
                   /\ RecordOf(variant, accounts'[m])
                        = [ok |-> TRUE,
                           rec |-> UserAccount(u,
                                     find_user_account_address(
                                        u, ProgramIdOf(variant)).bump,
                                     find_vault_address(
                                        u, ProgramIdOf(variant)).bump,
                                     TRUE)]
              ELSE /\ ~Created(last')
                   /\ accounts'[m].data = accounts[m].data
                   /\ accounts'[m].owner = accounts[m].owner]_vars

\* A first Deposit of a positive amount by a user with different bumps has
\* created the record and cost the user the amount and the minimum.
C21_Witness ==
    /\ AppliedIn(last)
    /\ OpOf(variant, last) = "Deposit"
    /\ Created(last)
    /\ AmountOf(variant, last) >= 1
    /\ accounts[MetaOf(last)].owner = ProgramIdOf(variant)
    /\ Lamports(accounts, MetaOf(last)) = RentExemptMinimum
    /\ Lamports(accounts, ActorOf(last))
        = InitLamports - AmountOf(variant, last) - RentExemptMinimum
    /\ LET r == RecordOf(variant, accounts[MetaOf(last)]).rec
       IN  r.user = ActorOf(last) /\ r.user_bump # r.vault_bump

\* The outcome and the committed ledger of a request under a program.
Verdict(L, out) == [applied |-> out.err = "Ok", ledger |-> Commit(L, out)]

(***************************************************************************)
(* C22.  The native and the Pinocchio program agree: deployed under the    *)
(* same program id and run on the same ledger with the same request        *)
(* (accounts, signer flags and payload), both apply it or both reject it,  *)
(* and they commit the same ledger, whatever metadata account the request  *)
(* supplies.                                                               *)
(***************************************************************************)
C22_NativeAndPinocchioAgree ==
    [][(last'.kind = "instruction" /\ variant \in {"native", "pinocchio"})
       => Verdict(accounts,
                  native_process_instruction(ProgramIdOf(variant), accounts,
                                             last'.accs, last'.data))
            = Verdict(accounts,
                      pinocchio_process_instruction(ProgramIdOf(variant), accounts,
                                                    last'.accs, last'.data))]_vars

\* The vault address process_withdraw recomputes from a record.
StoredVault(v, rec) ==
    create_program_address(<<VAULT_SEED, rec.user, rec.vault_bump>>, ProgramIdOf(v))

(***************************************************************************)
(* C23.  Deposit and Withdraw agree on the vault.  An applied Deposit by U *)
(* credits the address found by search from ["vault", U].  An applied      *)
(* Withdraw by U reads a record whose stored vault_bump gives that same    *)
(* address without a search, and debits that address.  A signed Withdraw   *)
(* by U whose record is U's and whose vault is the address of another      *)
(* bump than the stored one is rejected.                                   *)
(***************************************************************************)
C23_WithdrawDebitsTheDepositVault ==
    [][/\ (AppliedIn(last') /\ OpOf(variant, last') = "Deposit")
          => CustodyOf(last') = VaultOf(variant, ActorOf(last'))
       /\ (AppliedIn(last') /\ OpOf(variant, last') = "Withdraw")
          => LET d == RecordOf(variant, accounts[MetaOf(last')])
                 c == VaultOf(variant, ActorOf(last'))
             IN  /\ d.ok
                 /\ StoredVault(variant, d.rec).ok
                 /\ StoredVault(variant, d.rec).key = c
                 /\ CustodyOf(last') = c
                 /\ Lamports(accounts', c)
                        = Lamports(accounts, c) - AmountOf(variant, last')
       /\ (/\ WithdrawWithRecord(variant, accounts, last')
           /\ RecordOf(variant, accounts[MetaOf(last')]).rec.user = ActorOf(last')
           /\ \E b \in Bumps \ {RecordOf(variant, accounts[MetaOf(last')]).rec.vault_bump} :
                LET other == create_program_address(
                                <<VAULT_SEED, ActorOf(last'), b>>, ProgramIdOf(variant))
                IN  other.ok /\ CustodyOf(last') = other.key)
          => RejectedIn(last')]_vars

\* The lamports of the accounts keys of the ledger L together.
RECURSIVE SumLamports(_, _)
SumLamports(L, keys) ==
    IF keys = {} THEN 0
    ELSE LET k == CHOOSE x \in keys : TRUE
         IN  Lamports(L, k) + SumLamports(L, keys \ {k})

\* All the lamports of the ledger.
TotalLamports(L) == SumLamports(L, DOMAIN L)

\* The step is an applied Deposit that created the metadata account.
FirstDeposit(v, L, l) ==
    /\ AppliedIn(l)
    /\ OpOf(v, l) = "Deposit"
    /\ ~IsRecord(v, L, MetaOf(l))

C25_OtherUsersUntouched ==
    [][last'.kind = "instruction"
       => /\ \A other \in Users \ {ActorOf(last')} :
                /\ Lamports(accounts', other) = Lamports(accounts, other)
                /\ Lamports(accounts', VaultOf(variant, other))
                    = Lamports(accounts, VaultOf(variant, other))
                /\ accounts'[UserDataOf(variant, other)]
                    = accounts[UserDataOf(variant, other)]
          /\ OpOf(variant, last') = "Withdraw"
             => \A k \in DOMAIN accounts :
                    /\ accounts'[k].data = accounts[k].data
                    /\ accounts'[k].owner = accounts[k].owner]_vars

\* A user has withdrawn a positive amount while the other user has a record
\* and lamports in its vault.
C25_Witness ==
    /\ AppliedIn(last)
    /\ OpOf(variant, last) = "Withdraw"
    /\ AmountOf(variant, last) >= 1
    /\ \E other \in Users \ {ActorOf(last)} :
        /\ IsRecord(variant, accounts, UserDataOf(variant, other))
        /\ Lamports(accounts, VaultOf(variant, other)) >= 1
        /\ Lamports(accounts, other) < InitLamports

(***************************************************************************)
(* C26.  A first Deposit cannot be blocked by others: a Deposit signed by  *)
(* U, with the system program, the metadata address and the vault address  *)
(* a client derives for U, whose record does not exist yet and whose       *)
(* amount and rent-exempt minimum U's balance covers, is applied, whatever *)
(* requests and plain transfers (one to U's metadata address among them)   *)
(* came before it.                                                         *)
(***************************************************************************)
C26_FirstDepositCannotBeBlocked ==
    [][(/\ WellFormed(last')
        /\ OpOf(variant, last') = "Deposit"
        /\ ClientBuilt(variant, last')
        /\ ~IsRecord(variant, accounts, MetaOf(last'))
        /\ Lamports(accounts, ActorOf(last'))
            >= AmountOf(variant, last') + RentExemptMinimum)
       => AppliedIn(last')]_vars

\* The requests whose acting wallet is u.
RequestsBy(v, u) == {rq \in Requests(v) : rq[1][1].key = u}

\* The host runs the request first and then the request second on the
\* ledger L: the two outcomes and the ledger it has committed.
Serialized(v, L, first, second) ==
    LET After(o1, L1) ==
            LET Both(o2) == [first |-> o1.err = "Ok", second |-> o2.err = "Ok",
                             ledger |-> Commit(L1, o2)]
            IN  Both(RunOf(v, L1, second))
        Start(o1) == After(o1, Commit(L, o1))
    IN  Start(RunOf(v, L, first))

\* Either order gives each request the same outcome and the same ledger.
Commute(v, L, r1, r2) ==
    LET Same(a, b) ==
            /\ a.first = b.second
            /\ a.second = b.first
            /\ a.ledger = b.ledger
    IN  Same(Serialized(v, L, r1, r2), Serialized(v, L, r2, r1))

(***************************************************************************)
(* C27.  Requests of different users commute: on every ledger the host     *)
(* can be idle at, a request of one user and a request of the other get    *)
(* the same outcomes and leave the same ledger in either order.            *)
(***************************************************************************)
C27_RequestsOfDistinctUsersCommute ==
    last.kind = "idle"
    => \A r1 \in RequestsBy(variant, UserA) :
        \A r2 \in RequestsBy(variant, UserB) :
            Commute(variant, accounts, r1, r2)

(***************************************************************************)
(* C28.  The native and the Pinocchio program take exactly four accounts:  *)
(* a Deposit or Withdraw with fewer or with more is rejected with          *)
(* NotEnoughAccountKeys before any check of the accounts, the signature    *)
(* included (an unsigned request is refused for its count, not for its     *)
(* signature), and leaves the ledger as it was; a request they apply has   *)
(* four accounts.                                                          *)
(***************************************************************************)
C28_ExactlyFourAccounts ==
    [][(last'.kind = "instruction" /\ variant \in {"native", "pinocchio"})
       => /\ AppliedIn(last') => Len(last'.accs) = 4
          /\ (/\ OpOf(variant, last') \in {"Deposit", "Withdraw"}
              /\ Len(last'.accs) # 4)
             => /\ RejectedIn(last')
                /\ last'.err = "NotEnoughAccountKeys"
                /\ last'.events = <<>>
                /\ accounts' = accounts]_vars

\* A signed Withdraw of a client whose record exists and whose vault holds
\* the amount, refused for a fifth account.
C28_Witness ==
    /\ variant \in {"native", "pinocchio"}
    /\ RejectedIn(last)
    /\ last.err = "NotEnoughAccountKeys"
    /\ Len(last.accs) = 5
    /\ last.accs[1].is_signer
    /\ OpOf(variant, last) = "Withdraw"
    /\ AmountOf(variant, last) >= 1
    /\ IsRecord(variant, accounts, MetaOf(last))
    /\ Lamports(accounts, CustodyOf(last)) >= AmountOf(variant, last)

=============================================================================
